---- MODULE Spec2Model ----
(***************************************************************************)
(* fex (src/main.rs): a GTK viewer that walks a directory of TIFF / FITS   *)
(* files.  main scans the directory, Explorer keeps the list of paths and  *)
(* a cursor, and every "Next" press decodes one file with get_image,       *)
(* flattens its frames, scales the result to RGB-8 and shows it.           *)
(***************************************************************************)
EXTENDS Integers, Sequences, FiniteSets, TLC

VARIABLES
    pc,            \* where the process is: "start", "init", "running",
                   \* "frames" (inside the while loop of get_image_tiff),
                   \* "crashed" (a panic), "exited" (main returned), "pix"
    dir,           \* the directory listing, in the order read_dir yields it
    image_paths,   \* Explorer.image_paths (file names; the directory prefix is shared)
    image_index,   \* Explorer.image_index
    path,          \* the path get_image was last called with (<< >> before any call)
    file,          \* the contents of the file get_image is reading
    page,          \* the tiff decoder's current image (0-based)
    img_buffer,    \* get_image_*: img_buffer
    levels,        \* get_image_tiff: levels
    spins,         \* the parity of the number of failed next_image calls of this decode
    out            \* what the last completed get_image returned (NoImage before)

vars == <<pc, dir, image_paths, image_index, path, file, page, img_buffer, levels, spins, out>>

----------------------------------------------------------------------------
(* f32 values.  A finite value is the rational n/d in lowest terms; the    *)
(* other kinds are the IEEE specials and the literal 1e12, which is larger *)
(* than every finite value this model can hold.  The sums of the model are *)
(* small integers and are divided by 0, 1 or 2, so every sample kept is a  *)
(* value f32 holds exactly, and the byte computed from two such values is  *)
(* the byte the f32 operations give.                                       *)

RECURSIVE GCD(_, _)
GCD(a, b) == IF b = 0 THEN a ELSE GCD(b, a % b)

Abs(n) == IF n < 0 THEN -n ELSE n

Fin(n, d) ==
    LET s == IF d < 0 THEN -1 ELSE 1
        g == GCD(Abs(n), Abs(d))
    IN  [k |-> "fin", n |-> (s * n) \div g, d |-> (s * d) \div g]

F32(i) == [k |-> "fin", n |-> i, d |-> 1]
NaN    == [k |-> "nan", n |-> 0, d |-> 1]
Inf    == [k |-> "inf", n |-> 0, d |-> 1]
NegInf == [k |-> "ninf", n |-> 0, d |-> 1]
E12    == [k |-> "e12", n |-> 0, d |-> 1]
Zero   == F32(0)

IsNaN(a) == a.k = "nan"

\* the position of a non-NaN value among the kinds
Rank(a) == CASE a.k = "ninf" -> 0 [] a.k = "fin" -> 1 [] a.k = "e12" -> 2 [] a.k = "inf" -> 3

\* a < b on f32: false as soon as one side is NaN
Lt(a, b) ==
    /\ ~IsNaN(a)
    /\ ~IsNaN(b)
    /\ \/ Rank(a) < Rank(b)
       \/ a.k = "fin" /\ b.k = "fin" /\ a.n * b.d < b.n * a.d

Gt(a, b) == Lt(b, a)
Le(a, b) == ~IsNaN(a) /\ ~IsNaN(b) /\ ~Lt(b, a)

Sign(a) == CASE a.k = "ninf" -> -1
             [] a.k = "inf" -> 1
             [] a.k = "e12" -> 1
             [] a.k = "fin" -> (IF a.n < 0 THEN -1 ELSE IF a.n = 0 THEN 0 ELSE 1)

\* a + b
Add(a, b) ==
    CASE IsNaN(a) \/ IsNaN(b) -> NaN
      [] a.k = "fin" /\ b.k = "fin" -> Fin(a.n * b.d + b.n * a.d, a.d * b.d)
      [] a.k = "fin" -> b
      [] b.k = "fin" -> a
      [] a.k = b.k -> a
      [] OTHER -> NaN

\* a / b (every divisor of the program is >= +0.0 or NaN)
Div(a, b) ==
    CASE IsNaN(a) \/ IsNaN(b) -> NaN
      [] b.k = "fin" /\ b.n = 0 ->
            (IF Sign(a) = 0 THEN NaN ELSE IF Sign(a) > 0 THEN Inf ELSE NegInf)
      [] b.k = "fin" /\ a.k = "fin" -> Fin(a.n * b.d, a.d * b.n)
      [] b.k = "fin" -> (IF Sign(a) * Sign(b) > 0 THEN Inf ELSE NegInf)
      [] a.k = "fin" -> Zero
      [] OTHER -> NaN

\* a * c for a finite constant c > 0
Scale(a, c) == IF a.k = "fin" THEN Fin(a.n * c, a.d) ELSE a

\* `as u8`: truncates toward zero, saturates, NaN becomes 0
AsU8(a) ==
    CASE a.k = "nan" -> 0
      [] a.k = "ninf" -> 0
      [] a.k = "inf" -> 255
      [] a.k = "fin" ->
            (IF a.n < 0 THEN 0
             ELSE IF a.n \div a.d > 255 THEN 255 ELSE a.n \div a.d)

----------------------------------------------------------------------------
(* File names.  A name is a sequence of one-character strings.             *)

\* the byte of a character, as far as the names of this model need it
Byte(c) ==
    CASE c = "." -> 46 [] c = "a" -> 97 [] c = "b" -> 98 [] c = "c" -> 99
      [] c = "d" -> 100 [] c = "e" -> 101 [] c = "f" -> 102 [] c = "g" -> 103
      [] c = "i" -> 105 [] c = "o" -> 111 [] c = "r" -> 114 [] c = "s" -> 115
      [] c = "t" -> 116 [] c = "x" -> 120

\* whether sub occurs in s at position i (1-based), compared character by character
MatchAt(s, sub, i) ==
    /\ i + Len(sub) - 1 <= Len(s)
    /\ \A j \in 1..Len(sub) : s[i + j - 1] = sub[j]

\* a search that compares the first character only
ContainsFirstChar(s, sub) == \E i \in 1..Len(s) : s[i] = sub[1]

\* str::contains
Contains(s, sub) == \E i \in 1..Len(s) : MatchAt(s, sub, i)

TIF  == <<"t", "i", "f">>
TIFF == <<"t", "i", "f", "f">>
FITS == <<"f", "i", "t", "s">>

\* main's test on a file name
IsImageName(tx) == Contains(tx, TIF) \/ Contains(tx, FITS)

Dots(s) == {i \in 1..Len(s) : s[i] = "."}
LastDot(s) == CHOOSE i \in Dots(s) : \A j \in Dots(s) : j <= i

\* Path::extension: the part after the last dot; none when the name has no dot
\* or its only dot is its first character
HasExtension(s) == Dots(s) # {} /\ LastDot(s) > 1
Extension(s) == SubSeq(s, LastDot(s) + 1, Len(s))

\* a < b for two names, byte by byte (the order of PathBuf under a shared directory)
RECURSIVE NameLess(_, _)
NameLess(a, b) ==
    IF b = << >> THEN FALSE
    ELSE IF a = << >> THEN TRUE
    ELSE IF Byte(Head(a)) # Byte(Head(b)) THEN Byte(Head(a)) < Byte(Head(b))
    ELSE NameLess(Tail(a), Tail(b))

RECURSIVE Insert(_, _)
Insert(sorted, e) ==
    IF sorted = << >> THEN <<e>>
    ELSE IF NameLess(e, Head(sorted)) THEN <<e>> \o sorted
    ELSE <<Head(sorted)>> \o Insert(Tail(sorted), e)

\* sort_unstable on the collected paths
RECURSIVE SortPaths(_)
SortPaths(s) == IF s = << >> THEN << >> ELSE Insert(SortPaths(Tail(s)), Head(s))

\* the loop of main over the directory: keep the names that pass the test, in order
ScanDir(listing) == SelectSeq(listing, IsImageName)

----------------------------------------------------------------------------
(* The buffers of get_image_fits / get_image_tiff.  Vec<T> is a function   *)
(* on 0..len-1; width and height are w and h.                              *)

Size(v) == Cardinality(DOMAIN v)

Pixels(w, h) == {<<y, x>> : y \in 0..(h - 1), x \in 0..(w - 1)}

\* the offset the code computes for the pixel in row y, column x
Offset(y, x, w, h) == y * h + x

\* the row-major offset
OffsetRowMajor(y, x, w, h) == y * w + x

\* no read of a decoded array of length len is out of bounds
ReadsInBounds(w, h, len) == \A p \in Pixels(w, h) : Offset(p[1], p[2], w, h) < len

\* no write into final_buffer (w*h*3 bytes) is out of bounds
WritesInBounds(w, h) == \A p \in Pixels(w, h) : Offset(p[1], p[2], w, h) * 3 + 2 < w * h * 3

ZeroBytes(w, h) == [i \in 0..(w * h * 3 - 1) |-> 0]

\* img_buffer[y][x] = data[y * height + x] as f32
LoadFrame(data, w, h) ==
    [y \in 0..(h - 1) |-> [x \in 0..(w - 1) |-> F32(data[Offset(y, x, w, h)])]]

\* img_buffer[y][x] += img_next[y * height + x] as f32
AddFrame(buf, data, w, h) ==
    [y \in 0..(h - 1) |-> [x \in 0..(w - 1) |->
        Add(buf[y][x], F32(data[Offset(y, x, w, h)]))]]

\* img_buffer[y][x] = img_buffer[y][x] / (levels as f32)
Average(buf, lv, w, h) ==
    [y \in 0..(h - 1) |-> [x \in 0..(w - 1) |-> Div(buf[y][x], F32(lv))]]

\* the scan for the maximum, in loop order: scan[p] is maxp after p pixels
MaxOf(buf, w, h) ==
    LET scan[p \in 0..(w * h)] ==
            IF p = 0 THEN Zero
            ELSE LET v == buf[(p - 1) \div w][(p - 1) % w]
                     m == scan[p - 1]
                 IN  IF Gt(v, m) THEN v ELSE m
    IN  scan[w * h]

\* the scan for the minimum, in loop order: scan[p] is minp after p pixels
MinOf(buf, w, h) ==
    LET scan[p \in 0..(w * h)] ==
            IF p = 0 THEN E12
            ELSE LET v == buf[(p - 1) \div w][(p - 1) % w]
                     m == scan[p - 1]
                 IN  IF Lt(v, m) THEN v ELSE m
    IN  scan[w * h]

\* img_buffer[y][x] / maxp
Ratio(v, maxp) == Div(v, maxp)

\* (img_buffer[y][x] / maxp * 255.0) as u8
Colour(v, maxp) == AsU8(Scale(Ratio(v, maxp), 255))

\* the loop that fills final_buffer, in loop order: fill[p] is final_buffer
\* after p pixels
FillFinal(buf, maxp, w, h) ==
    LET fill[p \in 0..(w * h)] ==
            IF p = 0 THEN ZeroBytes(w, h)
            ELSE LET y == (p - 1) \div w
                     x == (p - 1) % w
                     colour == Colour(buf[y][x], maxp)
                     idx == Offset(y, x, w, h) * 3
                 IN  [fill[p - 1] EXCEPT ![idx] = colour, ![idx + 1] = colour, ![idx + 2] = colour]
    IN  fill[w * h]

\* how many times the loop writes the three bytes of pixel number j
TimesWritten(j, w, h) == Cardinality({p \in Pixels(w, h) : Offset(p[1], p[2], w, h) = j})

\* what get_image returns, with the averaged samples kept beside it
Picture(buf, w, h, minp, maxp) ==
    [kind |-> "image", width |-> w, height |-> h, minp |-> minp, maxp |-> maxp,
     final_buffer |-> FillFinal(buf, maxp, w, h), samples |-> buf]

\* the tail of get_image_*: min/max, then the scaling with the maximum found
Image(buf, w, h) ==
    CHOOSE img \in {Picture(buf, w, h, mn, mx) : mn \in {MinOf(buf, w, h)}, mx \in {MaxOf(buf, w, h)}} : TRUE

\* (dummy, 0, 0, 0.0, 0.0)
Dummy ==
    [kind |-> "dummy", width |-> 0, height |-> 0, minp |-> Zero, maxp |-> Zero,
     final_buffer |-> << >>, samples |-> << >>]

NoImage ==
    [kind |-> "none", width |-> 0, height |-> 0, minp |-> Zero, maxp |-> Zero,
     final_buffer |-> << >>, samples |-> << >>]

----------------------------------------------------------------------------
(* Files.  A file is what the decoders can observe of it: whether it can   *)
(* be opened, its declared width and height, and its images (the pages of  *)
(* a TIFF, the HDUs of a FITS).  Of an image: whether its directory can be *)
(* read (ifd_ok), whether its samples are of the expected type (typed:     *)
(* Gray(16) / U16 for TIFF, FloatingPoint32 for FITS), whether its samples *)
(* can be read (read_ok), and the samples themselves.                      *)

MaxVal   == 2     \* the largest sample of a generated frame
MaxW     == 3     \* the largest width
MaxH     == 2     \* the largest height
MaxPages == 3     \* the largest number of pages of a generated TIFF
MaxFiles == 3     \* the largest number of files in the directory

\* samples k |-> sign * ((a*k + b) mod (MaxVal+1)): a = 0 gives a uniform frame
Ramp(a, b, sign, len) == [k \in 0..(len - 1) |-> sign * ((a * k + b) % (MaxVal + 1))]

GoodPage(data) == [ifd_ok |-> TRUE, typed |-> TRUE, read_ok |-> TRUE, data |-> data]

File(w, h, pages) == [open_ok |-> TRUE, width |-> w, height |-> h, pages |-> pages]

Dims == (1..MaxW) \X (1..MaxH)

\* a TIFF's pages: page i holds the ramp a, b + (i-1)*step; step = 0 gives equal pages
Stack(a, b, step, n, len) ==
    [i \in 1..n |-> [ifd_ok |-> TRUE, typed |-> TRUE, read_ok |-> TRUE,
                     data |-> Ramp(a, b + (i - 1) * step, 1, len)]]

Faults == {"ifd", "type", "read"}

Break(pg, fault) ==
    CASE fault = "ifd"  -> [pg EXCEPT !.ifd_ok = FALSE]
      [] fault = "type" -> [pg EXCEPT !.typed = FALSE]
      [] fault = "read" -> [pg EXCEPT !.read_ok = FALSE]

\* the well-formed TIFF files
GoodTiffs ==
    {File(d[1], d[2], Stack(a, b, step, n, d[1] * d[2])) :
        d \in Dims, a \in 0..1, b \in 0..MaxVal, step \in 0..1, n \in 1..MaxPages}

\* the ways to break one page of ps (the first directory is read on opening)
Breaks(ps) == {c \in (1..Len(ps)) \X Faults : c[1] > 1 \/ c[2] # "ifd"}

BrokenFrom(w, h, ps) ==
    {File(w, h, [ps EXCEPT ![c[1]] = Break(ps[c[1]], c[2])]) : c \in Breaks(ps)}

\* TIFF files with one page that cannot be reached, typed or read
BrokenTiffs ==
    UNION {BrokenFrom(d[1], d[2], Stack(0, b, 0, n, d[1] * d[2])) :
              d \in Dims, b \in 0..MaxVal, n \in 1..MaxPages}

Unopenable == [open_ok |-> FALSE, width |-> 1, height |-> 1, pages |-> <<GoodPage(Ramp(0, 1, 1, 1))>>]

TiffInputs == GoodTiffs \cup BrokenTiffs \cup {Unopenable}

GoodFits ==
    {File(d[1], d[2], <<GoodPage(Ramp(a, b, sg, d[1] * d[2]))>>) :
        d \in Dims, a \in 0..1, b \in 0..MaxVal, sg \in {1, -1}}

FitsInputs ==
    GoodFits
    \cup {File(1, 1, <<Break(GoodPage(Ramp(0, 1, 1, 1)), "type")>>)}
    \cup {Unopenable}

\* the names of the directory
AFits  == <<"a", ".", "f", "i", "t", "s">>
BTif   == <<"b", ".", "t", "i", "f">>
CTiff  == <<"c", ".", "t", "i", "f", "f">>
DTif   == <<"d", ".", "t", "i", "f">>
ETif   == <<"e", ".", "t", "i", "f">>
GTif   == <<"g", ".", "t", "i", "f">>
FooBar == <<"f", "o", "o", ".", "b", "a", "r">>
TifTxt == <<"t", "i", "f", ".", "t", "x", "t">>
Fits   == <<"f", "i", "t", "s">>

Names == {AFits, BTif, CTiff, DTif, ETif, GTif, FooBar, TifTxt, Fits}

\* what each file of the directory holds
Files(name) ==
    CASE name = AFits -> File(2, 2, <<GoodPage(Ramp(1, 1, 1, 4))>>)
      [] name = BTif  -> File(2, 2, <<GoodPage(Ramp(1, 0, 1, 4)), GoodPage(Ramp(1, 1, 1, 4))>>)
      [] name = CTiff -> File(1, 1, <<GoodPage(Ramp(0, 2, 1, 1))>>)
      [] name = DTif  -> Unopenable
      [] name = ETif  -> File(1, 1, <<GoodPage(Ramp(0, 1, 1, 1)),
                                      Break(GoodPage(Ramp(0, 1, 1, 1)), "ifd")>>)
      [] name = GTif  -> File(1, 1, <<Break(GoodPage(Ramp(0, 1, 1, 1)), "type")>>)
      [] OTHER        -> File(1, 1, <<GoodPage(Ramp(0, 0, 1, 1))>>)

\* the listings read_dir can yield: up to MaxFiles distinct names, in any order
Listings ==
    UNION {{l \in [1..n -> Names] : \A i, j \in 1..n : i # j => l[i] # l[j]} : n \in 0..MaxFiles}

----------------------------------------------------------------------------
(* get_image                                                               *)

\* a panic: expect / unwrap / assert_eq! / an index out of bounds
Panic ==
    /\ pc' = "crashed"
    /\ UNCHANGED <<page, img_buffer, levels, spins, out>>

\* get_image returns img to the handler, which shows it
Return(img) ==
    /\ pc' = "running"
    /\ out' = img
    /\ page' = 0
    /\ img_buffer' = << >>
    /\ levels' = 0
    /\ UNCHANGED spins

\* get_image_fits
GetImageFits(f) ==
    IF ~f.open_ok THEN Panic
    ELSE IF ~f.pages[1].typed
         \* no arm of the match runs: width = height = 0 and the buffers stay
         \* empty; whether a 0 x 0 Pixbuf can be built is the library's affair
         THEN Return(Image(<< >>, 0, 0)) \/ Panic
    ELSE IF ~ReadsInBounds(f.width, f.height, Size(f.pages[1].data)) THEN Panic
    ELSE IF ~WritesInBounds(f.width, f.height) THEN Panic
    ELSE Return(Image(LoadFrame(f.pages[1].data, f.width, f.height), f.width, f.height))

\* get_image_tiff up to the while loop
GetImageTiff(f) ==
    IF ~f.open_ok THEN Panic
    ELSE IF ~f.pages[1].typed THEN Panic
    ELSE IF ~f.pages[1].read_ok THEN Panic
    ELSE IF ~ReadsInBounds(f.width, f.height, Size(f.pages[1].data)) THEN Panic
    ELSE /\ pc' = "frames"
         /\ img_buffer' = LoadFrame(f.pages[1].data, f.width, f.height)
         /\ levels' = 0
         /\ page' = 0
         /\ spins' = 0
         /\ UNCHANGED out

\* get_image(p), p holding f
GetImage(p, f) ==
    /\ path' = p
    /\ file' = f
    /\ IF ~HasExtension(p) THEN Panic
       ELSE IF Extension(p) = FITS THEN GetImageFits(f)
       ELSE IF Extension(p) = TIF \/ Extension(p) = TIFF THEN GetImageTiff(f)
       ELSE Return(Dummy)

\* decoder.more_images(): the current image names a next directory
MoreImages == page + 1 < Len(file.pages)

\* one turn of the while loop in which next_image fails: nothing is read, and
\* the decoder still names the same next directory
NextImageErr ==
    /\ pc = "frames"
    /\ MoreImages
    /\ ~file.pages[page + 2].ifd_ok
    /\ spins' = 1 - spins
    /\ UNCHANGED <<pc, dir, image_paths, image_index, path, file, page, img_buffer, levels, out>>

\* one turn of the while loop in which next_image succeeds
NextImage ==
    /\ pc = "frames"
    /\ MoreImages
    /\ file.pages[page + 2].ifd_ok
    /\ page' = page + 1
    /\ LET pg == file.pages[page + 2]
       IN  IF ~pg.read_ok
                \/ (pg.typed /\ ~ReadsInBounds(file.width, file.height, Size(pg.data)))
           THEN pc' = "crashed" /\ UNCHANGED <<img_buffer, levels>>
           ELSE /\ pc' = pc
                /\ IF pg.typed
                   THEN /\ levels' = levels + 1
                        /\ img_buffer' = AddFrame(img_buffer, pg.data, file.width, file.height)
                   ELSE UNCHANGED <<img_buffer, levels>>
    /\ UNCHANGED <<dir, image_paths, image_index, path, file, spins, out>>

\* get_image_tiff after the while loop: average, min/max, scale, return
Finish ==
    /\ pc = "frames"
    /\ ~MoreImages
    /\ IF ~WritesInBounds(file.width, file.height) THEN Panic
       ELSE Return(Image(Average(img_buffer, levels, file.width, file.height),
                         file.width, file.height))
    /\ UNCHANGED <<dir, image_paths, image_index, path, file>>

----------------------------------------------------------------------------
(* main and Explorer                                                       *)

\* image_paths[i]
PathAt(i) == image_paths[i + 1]

\* an advance that does not wrap
AdvanceNoWrap(mi, n) == mi + 1

\* the cursor after a press of Next
Advance(mi, n) == IF mi + 1 >= n THEN 0 ELSE mi + 1

\* main: scan the directory, sort what was found, build the Explorer
Main ==
    /\ pc = "start"
    /\ LET found == ScanDir(dir)
       IN  IF Len(found) > 0
           THEN /\ image_paths' = SortPaths(found)
                /\ pc' = "init"
           ELSE /\ image_paths' = << >>
                /\ pc' = "exited"
    /\ image_index' = 0
    /\ UNCHANGED <<dir, path, file, page, img_buffer, levels, spins, out>>

\* connect_activate: build the window around the first image
Activate ==
    /\ pc = "init"
    /\ GetImage(PathAt(0), Files(PathAt(0)))
    /\ UNCHANGED <<dir, image_paths, image_index>>

\* button_accept.connect_clicked
PressNext ==
    /\ pc = "running"
    /\ LET mi == image_index
       IN  /\ image_index' = Advance(mi, Len(image_paths))
           /\ IF mi + 1 >= Len(image_paths)
              THEN Panic /\ UNCHANGED <<path, file>>      \* image_paths[mi + 1]
              ELSE GetImage(PathAt(mi + 1), Files(PathAt(mi + 1)))
    /\ UNCHANGED <<dir, image_paths>>

Init ==
    /\ pc = "start"
    /\ dir \in Listings
    /\ image_paths = << >>
    /\ image_index = 0
    /\ path = << >>
    /\ file = Unopenable
    /\ page = 0
    /\ img_buffer = << >>
    /\ levels = 0
    /\ spins = 0
    /\ out = NoImage

Next == Main \/ Activate \/ PressNext \/ NextImage \/ NextImageErr \/ Finish

Spec == Init /\ [][Next]_vars

\* the while loop is code that runs: its next turn, or its exit, is taken
Decode == NextImage \/ NextImageErr \/ Finish

LiveSpec == Spec /\ WF_vars(Decode)

----------------------------------------------------------------------------
(* One decode: a file drawn from the generated inputs is handed to         *)
(* get_image under a name of its format.                                   *)

Render ==
    /\ pc = "pix"
    /\ GetImage(path, file)
    /\ UNCHANGED <<dir, image_paths, image_index>>

InitPix ==
    /\ pc = "pix"
    /\ \/ path = BTif /\ file \in TiffInputs
       \/ path = AFits /\ file \in FitsInputs
    /\ dir = << >>
    /\ image_paths = << >>
    /\ image_index = 0
    /\ page = 0
    /\ img_buffer = << >>
    /\ levels = 0
    /\ spins = 0
    /\ out = NoImage

NextPix == Render \/ NextImage \/ NextImageErr \/ Finish

SpecPix == InitPix /\ [][NextPix]_vars

----------------------------------------------------------------------------
(* Properties                                                              *)

\* sub occurs somewhere in s
HasSub(s, sub) ==
    \E i \in 1..(Len(s) - Len(sub) + 1) : SubSeq(s, i, i + Len(sub) - 1) = sub

Listed == {image_paths[i] : i \in 1..Len(image_paths)}
InDir  == {dir[i] : i \in 1..Len(dir)}

\* a file every page of which can be reached, read and is of the expected type
Intact(f) ==
    /\ f.open_ok
    /\ \A i \in 1..Len(f.pages) : f.pages[i].ifd_ok /\ f.pages[i].typed /\ f.pages[i].read_ok

KnownExtension(p) == HasExtension(p) /\ Extension(p) \in {FITS, TIF, TIFF}

\* get_image has returned a picture of the file
Rendered == pc = "running" /\ out.kind = "image" /\ out.width >= 1 /\ out.height >= 1

\* C1: a press of Next calls get_image on the path at the next index modulo the
\* number of paths, and does not end the process when that file decodes.
C1_NextCycles ==
    [][pc = "running" =>
          LET t == image_paths[((image_index + 1) % Len(image_paths)) + 1]
          IN  /\ path' = t
              /\ (KnownExtension(t) /\ Intact(Files(t))) => pc' # "crashed"]_vars

\* C2: the cursor starts at 0, stays within 0..n-1 once the paths are known,
\* moves only on a press of Next, and then from i to i+1, or to 0 from the last.
C2_Cursor ==
    /\ image_index = 0
    /\ [](pc \notin {"start", "exited"} => image_index \in 0..(Len(image_paths) - 1))
    /\ [][IF pc = "running"
          THEN image_index' = (IF image_index + 1 < Len(image_paths)
                               THEN image_index + 1 ELSE 0)
          ELSE image_index' = image_index]_vars

\* C2 witness: with two or more paths, the cursor is back at 0 after a press on
\* the last one.
C2_Wrapped ==
    /\ Len(image_paths) >= 2
    /\ path = image_paths[Len(image_paths)]
    /\ image_index = 0

\* C3: the averaged samples of a file with one frame are that frame.
C3_SingleFrameExact ==
    (Rendered /\ Len(file.pages) = 1) =>
        \A p \in Pixels(out.width, out.height) :
            out.samples[p[1]][p[2]]
                = F32(file.pages[1].data[OffsetRowMajor(p[1], p[2], out.width, out.height)])

\* C4: when all the frames of a TIFF are the same, the averaged samples are
\* that frame.
C4_AverageOfEqualFrames ==
    (/\ Rendered
     /\ path = BTif
     /\ Intact(file)
     /\ \A i \in 1..Len(file.pages) : file.pages[i].data = file.pages[1].data) =>
        \A p \in Pixels(out.width, out.height) :
            out.samples[p[1]][p[2]]
                = F32(file.pages[1].data[OffsetRowMajor(p[1], p[2], out.width, out.height)])

\* C5: every averaged sample lies between the reported minimum and maximum.
C5_MinMaxBound ==
    Rendered =>
        \A p \in Pixels(out.width, out.height) :
            /\ Le(out.minp, out.samples[p[1]][p[2]])
            /\ Le(out.samples[p[1]][p[2]], out.maxp)

\* C6: when the maximum is 0 every byte of the picture is 0, and no quotient
\* computed on the way is NaN or infinite.
C6_ZeroMax ==
    (Rendered /\ out.maxp = Zero) =>
        /\ \A i \in DOMAIN out.final_buffer : out.final_buffer[i] = 0
        /\ \A p \in Pixels(out.width, out.height) :
              Ratio(out.samples[p[1]][p[2]], out.maxp).k = "fin"

\* C7: the picture has width*height*3 bytes, the three bytes of the pixel in
\* row y and column x are at (y*width + x)*3 and hold its scaled sample, and
\* each pixel is written once.
C7_RowMajorLayout ==
    Rendered =>
        /\ Size(out.final_buffer) = out.width * out.height * 3
        /\ \A p \in Pixels(out.width, out.height) :
              LET j == OffsetRowMajor(p[1], p[2], out.width, out.height)
              IN  /\ \A c \in 0..2 :
                        out.final_buffer[j * 3 + c] = Colour(out.samples[p[1]][p[2]], out.maxp)
                  /\ TimesWritten(j, out.width, out.height) = 1

\* the file get_image was called with cannot be decoded
DecodeError(p, f) == ~KnownExtension(p) \/ ~f.open_ok \/ ~f.pages[1].typed

\* C8: after get_image has met a file it cannot decode, the viewer is running
\* and its cursor is valid.
C8_ErrorKeepsViewer ==
    (path # << >> /\ pc # "frames" /\ DecodeError(path, file)) =>
        /\ pc = "running"
        /\ image_index \in 0..(Len(image_paths) - 1)

\* C9 as stated: every listed path has the extension fits, tif or tiff.
C9_ListedByExtension == \A p \in Listed : KnownExtension(p)

\* C9, amended: a file whose name holds neither "tif" nor "fits" is not listed
\* and never reaches get_image; every listed name holds one of the two.
C9_ListedByName ==
    pc # "start" =>
        /\ \A f \in InDir :
              ~(HasSub(f, TIF) \/ HasSub(f, FITS)) => (f \notin Listed /\ path # f)
        /\ \A p \in Listed : HasSub(p, TIF) \/ HasSub(p, FITS)
        /\ path # << >> => path \in Listed

\* C9 witness: foo.bar is in the directory and left out, while tif.txt is
\* listed and has been handed to get_image.
C9_Excluded ==
    /\ pc = "running"
    /\ FooBar \in InDir
    /\ TifTxt \in Listed
    /\ path = TifTxt

\* C10: a decode that has entered the loop over the further frames leaves it,
\* by returning or by a panic.
C10_DecodeEnds == (pc = "frames") ~> (pc \in {"running", "crashed"})

====
